---------------------------- MODULE Spec2Model ----------------------------
(***************************************************************************)
(* Starkweather tracker (src/streamlit_app.py): the JSON file store        *)
(* (load_data / save_data), record addition (add_beer), the menu merge     *)
(* (update_available_beers), the scraper's candidate filter and            *)
(* de-duplication (fetch_starkweather_beers) and the two button handlers.  *)
(*                                                                         *)
(* A Python str is a sequence of Unicode code points (naturals); the file  *)
(* is the sequence of characters json.dump writes, and load_data parses    *)
(* that text again.                                                        *)
(***************************************************************************)
EXTENDS Integers, Sequences, FiniteSets, TLC

VARIABLES
    file,     \* starkweather_data.json: [exists, text]
    clock,    \* the wall clock read by datetime.now(), in steps of 18 hours
    ui,       \* messages the current interaction has shown (st.error, ...)
    last,     \* the most recent call: [op, args, before, ret]
    pc,       \* per session: where it stands in a load-modify-save cycle
    local     \* per session: the `data` dict it loaded and has modified

vars == <<file, clock, ui, last, pc, local>>

----------------------------------------------------------------------------
(* Characters and strings *)

LowerCase == <<"a","b","c","d","e","f","g","h","i","j","k","l","m",
               "n","o","p","q","r","s","t","u","v","w","x","y","z">>
UpperCase == <<"A","B","C","D","E","F","G","H","I","J","K","L","M",
               "N","O","P","Q","R","S","T","U","V","W","X","Y","Z">>
Digits    == <<"0","1","2","3","4","5","6","7","8","9">>

\* ord(c) for the characters the model writes as literals.
Ord(c) ==
    IF \E i \in 1..26 : LowerCase[i] = c
    THEN 96 + (CHOOSE i \in 1..26 : LowerCase[i] = c)
    ELSE IF \E i \in 1..26 : UpperCase[i] = c
    THEN 64 + (CHOOSE i \in 1..26 : UpperCase[i] = c)
    ELSE IF \E i \in 1..10 : Digits[i] = c
    THEN 47 + (CHOOSE i \in 1..10 : Digits[i] = c)
    ELSE CASE c = " "  -> 32
           [] c = "\"" -> 34
           [] c = ","  -> 44
           [] c = "-"  -> 45
           [] c = ":"  -> 58
           [] c = "["  -> 91
           [] c = "\\" -> 92
           [] c = "]"  -> 93
           [] c = "_"  -> 95
           [] c = "{"  -> 123
           [] c = "}"  -> 125

\* A string literal, given character by character.
S(cs) == [i \in 1..Len(cs) |-> Ord(cs[i])]

RECURSIVE Concat(_)
Concat(ss) == IF ss = <<>> THEN <<>> ELSE Head(ss) \o Concat(Tail(ss))

Range(s) == {s[i] : i \in 1..Len(s)}

Min(a, b) == IF a <= b THEN a ELSE b

\* Python's str < str: lexicographic by code point, a proper prefix first.
RECURSIVE StrLess(_, _)
StrLess(a, b) ==
    IF b = <<>> THEN FALSE
    ELSE IF a = <<>> THEN TRUE
    ELSE IF Head(a) # Head(b) THEN Head(a) < Head(b)
    ELSE StrLess(Tail(a), Tail(b))

\* list(a_set) left as it comes: here, the longest name first.
RECURSIVE Unsorted(_)
Unsorted(set) ==
    IF set = {} THEN <<>>
    ELSE LET longest == CHOOSE x \in set : \A y \in set : Len(y) <= Len(x)
         IN  <<longest>> \o Unsorted(set \ {longest})

\* sorted(list(a_set)) for a set of strings.
RECURSIVE Sorted(_)
Sorted(set) ==
    IF set = {} THEN <<>>
    ELSE LET least == CHOOSE x \in set : \A y \in set \ {x} : StrLess(x, y)
         IN  <<least>> \o Sorted(set \ {least})

----------------------------------------------------------------------------
(* json.dump(data, f, indent=2) and json.load(f) *)

Quote     == Ord("\"")
Backslash == Ord("\\")
Comma     == Ord(",")
Colon     == Ord(":")
LBracket  == Ord("[")
RBracket  == Ord("]")
LBrace    == Ord("{")
RBrace    == Ord("}")
Space     == Ord(" ")
Newline   == <<10>>
LetterU   == Ord("u")
LetterN   == Ord("n")
LetterR   == Ord("r")
LetterT   == Ord("t")
LetterB   == Ord("b")
LetterF   == Ord("f")

HexDigits == S(<<"0","1","2","3","4","5","6","7","8","9","a","b","c","d","e","f">>)

Hex4(n) == << HexDigits[((n \div 4096) % 16) + 1], HexDigits[((n \div 256) % 16) + 1],
              HexDigits[((n \div 16) % 16) + 1],   HexDigits[(n % 16) + 1] >>

UEscape(n) == <<Backslash, LetterU>> \o Hex4(n)

\* The encoder with the backslash written as it is.
EncodeCharBackslashRaw(c) ==
    IF c = Quote THEN <<Backslash, Quote>>
    ELSE IF c >= 32 /\ c <= 126 THEN <<c>>
    ELSE UEscape(c % 65536)

\* json.encoder.py_encode_basestring_ascii, one character (ensure_ascii is
\* the default): the quote and the backslash are escaped, the usual control
\* characters get their short form, everything else outside ' '..'~' is
\* written \uXXXX, above U+FFFF as a surrogate pair.
EncodeChar(c) ==
    IF c = Quote THEN <<Backslash, Quote>>
    ELSE IF c = Backslash THEN <<Backslash, Backslash>>
    ELSE IF c = 10 THEN <<Backslash, LetterN>>
    ELSE IF c = 13 THEN <<Backslash, LetterR>>
    ELSE IF c = 9  THEN <<Backslash, LetterT>>
    ELSE IF c = 8  THEN <<Backslash, LetterB>>
    ELSE IF c = 12 THEN <<Backslash, LetterF>>
    ELSE IF c >= 32 /\ c <= 126 THEN <<c>>
    ELSE IF c < 65536 THEN UEscape(c)
    ELSE UEscape(55296 + ((c - 65536) \div 1024)) \o UEscape(56320 + ((c - 65536) % 1024))

DumpStr(s) == <<Quote>> \o Concat([i \in 1..Len(s) |-> EncodeChar(s[i])]) \o <<Quote>>

Indent(level) == [i \in 1..(2 * level) |-> Space]

\* A JSON array of already encoded items, at nesting `level`.
DumpList(items, level) ==
    IF items = <<>> THEN <<LBracket, RBracket>>
    ELSE <<LBracket>>
         \o Concat([i \in 1..Len(items) |->
                (IF i = 1 THEN <<>> ELSE <<Comma>>)
                \o Newline \o Indent(level + 1) \o items[i]])
         \o Newline \o Indent(level) \o <<RBracket>>

\* A JSON object of <<key, encoded value>> members, in the dict's order.
DumpDict(members, level) ==
    IF members = <<>> THEN <<LBrace, RBrace>>
    ELSE <<LBrace>>
         \o Concat([i \in 1..Len(members) |->
                (IF i = 1 THEN <<>> ELSE <<Comma>>)
                \o Newline \o Indent(level + 1)
                \o DumpStr(members[i][1]) \o <<Colon, Space>> \o members[i][2]])
         \o Newline \o Indent(level) \o <<RBrace>>

KeyBeers     == S(<<"b","e","e","r","s">>)
KeyAvailable == S(<<"a","v","a","i","l","a","b","l","e","_","b","e","e","r","s">>)
KeyName      == S(<<"n","a","m","e">>)
KeyDate      == S(<<"d","a","t","e">>)
KeyTimestamp == S(<<"t","i","m","e","s","t","a","m","p">>)

\* The dict keys of the document, as the field names of the model's records.
FieldOf(key) ==
    CASE key = KeyBeers     -> "beers"
      [] key = KeyAvailable -> "available_beers"
      [] key = KeyName      -> "name"
      [] key = KeyDate      -> "date"
      [] key = KeyTimestamp -> "timestamp"
      [] OTHER              -> "?"

DumpRecord(r, level) ==
    DumpDict(<< <<KeyName, DumpStr(r.name)>>,
                <<KeyDate, DumpStr(r.date)>>,
                <<KeyTimestamp, DumpStr(r.timestamp)>> >>, level)

\* The text json.dump writes for {"beers": [...], "available_beers": [...]}.
Dump(data) ==
    DumpDict(<< <<KeyBeers,
                  DumpList([i \in 1..Len(data.beers) |-> DumpRecord(data.beers[i], 2)], 1)>>,
                <<KeyAvailable,
                  DumpList([i \in 1..Len(data.available_beers) |->
                               DumpStr(data.available_beers[i])], 1)>> >>, 0)

ParseFail == [ok |-> FALSE, val |-> <<>>, pos |-> 0]

IsSpace(c) == c \in {32, 10, 13, 9}

RECURSIVE SkipSpace(_, _)
SkipSpace(t, i) == IF i <= Len(t) /\ IsSpace(t[i]) THEN SkipSpace(t, i + 1) ELSE i

HexVal(c) ==
    IF c >= 48 /\ c <= 57 THEN c - 48
    ELSE IF c >= 97 /\ c <= 102 THEN c - 87
    ELSE IF c >= 65 /\ c <= 70 THEN c - 55
    ELSE -1

\* The code unit of \uXXXX whose four digits start at t[i]; -1 if malformed.
Hex4Val(t, i) ==
    IF i + 3 > Len(t) \/ \E k \in 0..3 : HexVal(t[i + k]) < 0 THEN -1
    ELSE 4096 * HexVal(t[i]) + 256 * HexVal(t[i + 1]) + 16 * HexVal(t[i + 2]) + HexVal(t[i + 3])

Unescape(e) ==
    CASE e = Quote     -> Quote
      [] e = Backslash -> Backslash
      [] e = 47        -> 47
      [] e = LetterN  -> 10
      [] e = LetterR  -> 13
      [] e = LetterT  -> 9
      [] e = LetterB  -> 8
      [] e = LetterF  -> 12
      [] OTHER         -> -1

\* json.decoder.py_scanstring from the character after the opening quote:
\* the decoded string and the position after the closing quote.  A \uXXXX
\* high surrogate followed by a \uXXXX low surrogate is one character.
RECURSIVE ScanString(_, _, _)
ScanString(t, i, acc) ==
    IF i > Len(t) THEN ParseFail
    ELSE IF t[i] = Quote THEN [ok |-> TRUE, val |-> acc, pos |-> i + 1]
    ELSE IF t[i] < 32 THEN ParseFail
    ELSE IF t[i] # Backslash THEN ScanString(t, i + 1, Append(acc, t[i]))
    ELSE IF i + 1 > Len(t) THEN ParseFail
    ELSE IF t[i + 1] # LetterU
    THEN IF Unescape(t[i + 1]) < 0 THEN ParseFail
         ELSE ScanString(t, i + 2, Append(acc, Unescape(t[i + 1])))
    ELSE LET uni == Hex4Val(t, i + 2)
             low == IF i + 7 <= Len(t) /\ t[i + 6] = Backslash /\ t[i + 7] = LetterU
                    THEN Hex4Val(t, i + 8) ELSE -1
         IN  IF uni < 0 THEN ParseFail
             ELSE IF uni >= 55296 /\ uni <= 56319 /\ low >= 56320 /\ low <= 57343
             THEN ScanString(t, i + 12,
                     Append(acc, 65536 + (uni - 55296) * 1024 + (low - 56320)))
             ELSE ScanString(t, i + 6, Append(acc, uni))

\* json.scanner: a value is a string, an array or an object (the document
\* holds nothing else).  An array is a sequence, an object a function of its
\* keys' field names.
RECURSIVE ParseValue(_, _), ParseItems(_, _, _), ParseMembers(_, _, _)

Parsed(val, pos) == [ok |-> TRUE, val |-> val, pos |-> pos]

\* After an item of an array: a comma and the next item, or the end.
ItemSep(t, k, acc) ==
    IF k > Len(t) THEN ParseFail
    ELSE IF t[k] = Comma THEN ParseItems(t, k + 1, acc)
    ELSE IF t[k] = RBracket THEN Parsed(acc, k + 1)
    ELSE ParseFail

AfterItem(t, item, acc) ==
    IF ~item.ok THEN ParseFail
    ELSE ItemSep(t, SkipSpace(t, item.pos), Append(acc, item.val))

ParseItems(t, i, acc) == AfterItem(t, ParseValue(t, i), acc)

ParseArray(t, k) ==
    IF k <= Len(t) /\ t[k] = RBracket THEN Parsed(<<>>, k + 1)
    ELSE ParseItems(t, k, <<>>)

\* dict[key] = value
SetItem(dict, key, value) ==
    [f \in DOMAIN dict \cup {key} |-> IF f = key THEN value ELSE dict[f]]

\* After a member of an object: a comma and the next member, or the end.
MemberSep(t, k, dict) ==
    IF k > Len(t) THEN ParseFail
    ELSE IF t[k] = Comma THEN ParseMembers(t, k + 1, dict)
    ELSE IF t[k] = RBrace THEN Parsed(dict, k + 1)
    ELSE ParseFail

AfterMember(t, key, member, acc) ==
    IF ~member.ok THEN ParseFail
    ELSE MemberSep(t, SkipSpace(t, member.pos), SetItem(acc, FieldOf(key), member.val))

MemberColon(t, key, c, acc) ==
    IF c > Len(t) \/ t[c] # Colon THEN ParseFail
    ELSE AfterMember(t, key, ParseValue(t, c + 1), acc)

AfterKey(t, key, acc) ==
    IF ~key.ok THEN ParseFail
    ELSE MemberColon(t, key.val, SkipSpace(t, key.pos), acc)

MemberKey(t, j, acc) ==
    IF j > Len(t) \/ t[j] # Quote THEN ParseFail
    ELSE AfterKey(t, ScanString(t, j + 1, <<>>), acc)

ParseMembers(t, i, acc) == MemberKey(t, SkipSpace(t, i), acc)

ParseObject(t, k) ==
    IF k <= Len(t) /\ t[k] = RBrace THEN Parsed(<<>>, k + 1)
    ELSE ParseMembers(t, k, <<>>)

ParseValueAt(t, j) ==
    IF j > Len(t) THEN ParseFail
    ELSE IF t[j] = Quote THEN ScanString(t, j + 1, <<>>)
    ELSE IF t[j] = LBracket THEN ParseArray(t, SkipSpace(t, j + 1))
    ELSE IF t[j] = LBrace THEN ParseObject(t, SkipSpace(t, j + 1))
    ELSE ParseFail

ParseValue(t, i) == ParseValueAt(t, SkipSpace(t, i))

\* json.load: the whole text is one value; anything else raises.
WholeText(t, v) == IF v.ok /\ SkipSpace(t, v.pos) > Len(t) THEN v ELSE ParseFail

Parse(t) == WholeText(t, ParseValue(t, 1))

----------------------------------------------------------------------------
(* Persistence *)

NoFile == [exists |-> FALSE, text |-> <<>>]

EmptyData == [beers |-> <<>>, available_beers |-> <<>>]

\* load_data(): the stored document, or the default when no file exists.
\* [raised, data]: json.load raises on text that is no JSON document.
Loaded(v) ==
    IF v.ok THEN [raised |-> FALSE, data |-> v.val]
    ELSE [raised |-> TRUE, data |-> EmptyData]

load_data(f) ==
    IF f.exists THEN Loaded(Parse(f.text))
    ELSE [raised |-> FALSE, data |-> EmptyData]

\* save_data(data): the file afterwards.
save_data(data) == [exists |-> TRUE, text |-> Dump(data)]

----------------------------------------------------------------------------
(* datetime.now(): the clock counts steps of 18 hours from 2024-02-28 12:00 *)

IsLeap(y) == (y % 4 = 0 /\ y % 100 # 0) \/ y % 400 = 0

DaysInMonth(y, m) ==
    IF m = 2 THEN (IF IsLeap(y) THEN 29 ELSE 28)
    ELSE IF m \in {4, 6, 9, 11} THEN 30 ELSE 31

NextDay(d) ==
    IF d.day < DaysInMonth(d.year, d.month) THEN [d EXCEPT !.day = @ + 1]
    ELSE IF d.month < 12 THEN [d EXCEPT !.month = @ + 1, !.day = 1]
    ELSE [year |-> d.year + 1, month |-> 1, day |-> 1]

RECURSIVE DateAfter(_, _)
DateAfter(d, n) == IF n = 0 THEN d ELSE DateAfter(NextDay(d), n - 1)

\* The calendar date on which the clock reads t.
DateAt(t) == DateAfter([year |-> 2024, month |-> 2, day |-> 28], (12 + 18 * t) \div 24)

HourAt(t) == (12 + 18 * t) % 24

Hyphen      == S(<<"-">>)
TimeSep     == S(<<"T">>)
ZeroMinutes == S(<<":","0","0",":","0","0">>)

\* %d-style decimal, zero padded to `width` digits.
RECURSIVE Decimal(_, _)
Decimal(n, width) ==
    IF width = 0 THEN <<>> ELSE Decimal(n \div 10, width - 1) \o <<48 + (n % 10)>>

\* datetime.strftime("%Y-%m-%d") of the clock reading t.
strftime(t) ==
    Decimal(DateAt(t).year, 4) \o Hyphen \o Decimal(DateAt(t).month, 2)
        \o Hyphen \o Decimal(DateAt(t).day, 2)

\* datetime.isoformat() of the clock reading t (whole hours, no microseconds).
isoformat(t) ==
    strftime(t) \o TimeSep \o Decimal(HourAt(t), 2) \o ZeroMinutes

----------------------------------------------------------------------------
(* add_beer and update_available_beers, on the loaded `data` *)

None == <<>>
Some(x) == <<x>>

\* add_beer with the default date taken from the date-time stamp.
add_beer_stamp_as_date(data, beer_name, date, now) ==
    [data EXCEPT !.beers =
        Append(@, [name      |-> beer_name,
                   date      |-> IF date = None THEN isoformat(now) ELSE date[1],
                   timestamp |-> isoformat(now)])]

\* add_beer, lines 30-37: `data` with the new record appended; `now` is what
\* datetime.now() reads during the call.
add_beer(data, beer_name, date, now) ==
    [data EXCEPT !.beers =
        Append(@, [name      |-> beer_name,
                   date      |-> IF date = None THEN strftime(now) ELSE date[1],
                   timestamp |-> isoformat(now)])]

\* update_available_beers keeping only the new names.
update_available_beers_replacing(data, new_beers) ==
    LET merged == [f \in DOMAIN data \cup {"available_beers"} |->
                      IF f = "available_beers" THEN Sorted(Range(new_beers)) ELSE data[f]]
    IN  [data |-> merged, ret |-> Len(merged.available_beers)]

\* update_available_beers extending the list instead of a set.
update_available_beers_extending(data, new_beers) ==
    LET merged == [data EXCEPT !.available_beers = @ \o new_beers]
    IN  [data |-> merged, ret |-> Len(merged.available_beers)]

\* update_available_beers writing a fresh document.
update_available_beers_fresh(data, new_beers) ==
    LET merged == [beers |-> <<>>,
                   available_beers |-> Sorted(Range(data.available_beers) \cup Range(new_beers))]
    IN  [data |-> merged, ret |-> Len(merged.available_beers)]

\* update_available_beers, lines 80-88: [data, ret].
update_available_beers(data, new_beers) ==
    LET stored == IF "available_beers" \in DOMAIN data THEN data.available_beers ELSE <<>>
        current_beers == Range(stored) \cup Range(new_beers)
        merged == [f \in DOMAIN data \cup {"available_beers"} |->
                      IF f = "available_beers" THEN Sorted(current_beers) ELSE data[f]]
    IN  [data |-> merged, ret |-> Len(merged.available_beers)]

----------------------------------------------------------------------------
(* fetch_starkweather_beers *)

\* str.lower(), on ASCII and Latin-1 letters.
Lower(text) ==
    [i \in 1..Len(text) |->
        IF (text[i] >= 65 /\ text[i] <= 90) \/ (text[i] >= 192 /\ text[i] <= 222 /\ text[i] # 215)
        THEN text[i] + 32 ELSE text[i]]

\* `sub in text`
Contains(sub, text) ==
    \E i \in 0..(Len(text) - Len(sub)) : \A k \in 1..Len(sub) : text[i + k] = sub[k]

Keywords ==
    << S(<<"i","p","a">>), S(<<"s","t","o","u","t">>), S(<<"l","a","g","e","r">>),
       S(<<"p","a","l","e">>), S(<<"a","l","e">>), S(<<"p","i","l","s","n","e","r">>),
       S(<<"s","o","u","r">>), S(<<"p","o","r","t","e","r">>), S(<<"w","h","e","a","t">>),
       S(<<"c","i","d","e","r">>) >>

\* str.strip(): leading and trailing whitespace removed.
RECURSIVE LStrip(_), RStrip(_)
LStrip(s) == IF s # <<>> /\ IsSpace(Head(s)) THEN LStrip(Tail(s)) ELSE s
RStrip(s) == IF s # <<>> /\ IsSpace(s[Len(s)]) THEN RStrip(SubSeq(s, 1, Len(s) - 1)) ELSE s
Strip(s) == RStrip(LStrip(s))

\* item.get_text(strip=True): the element's text nodes, each stripped, joined.
get_text(item) == Concat([i \in 1..Len(item) |-> Strip(item[i])])

\* The filter with the lower length limit off by one.
LooksLikeBeerFromThree(text) ==
    /\ text # <<>>
    /\ Len(text) >= 3
    /\ Len(text) < 100
    /\ \/ \E k \in 1..Len(Keywords) : Contains(Keywords[k], Lower(text))
       \/ (5 < Len(text) /\ Len(text) < 60)

\* Lines 58 and 60: whether the text is kept as a beer name.
LooksLikeBeer(text) ==
    /\ text # <<>>
    /\ Len(text) > 3
    /\ Len(text) < 100
    /\ \/ \E k \in 1..Len(Keywords) : Contains(Keywords[k], Lower(text))
       \/ (5 < Len(text) /\ Len(text) < 60)

\* Lines 52-61: the texts kept, in document order.
RECURSIVE Candidates(_)
Candidates(items) ==
    IF items = <<>> THEN <<>>
    ELSE (IF LooksLikeBeer(get_text(Head(items))) THEN <<get_text(Head(items))>> ELSE <<>>)
         \o Candidates(Tail(items))

\* Duplicates removed with list(set(beers)): the order of the page is lost.
UniqueBySet(beers, seen, unique_beers) == Sorted(Range(beers))

\* Lines 64-69: duplicates removed, the first occurrence kept.
RECURSIVE Unique(_, _, _)
Unique(beers, seen, unique_beers) ==
    IF beers = <<>> THEN unique_beers
    ELSE IF Head(beers) \notin seen
    THEN Unique(Tail(beers), seen \cup {Head(beers)}, Append(unique_beers, Head(beers)))
    ELSE Unique(Tail(beers), seen, unique_beers)

TopResults == 20

\* Line 71: unique_beers[:20]
Top(unique_beers) == SubSeq(unique_beers, 1, Min(TopResults, Len(unique_beers)))

\* fetch_starkweather_beers without response.raise_for_status().
fetch_starkweather_beers_any_status(response) ==
    IF response.error # ""
    THEN [ret |-> <<>>, shown |-> <<"error">>]
    ELSE [ret |-> Top(Unique(Candidates(response.items), {}, <<>>)), shown |-> <<>>]

\* The function on the outcome of requests.get: [ret, shown].  A response is
\* [error, status, items]: error names the exception requests.get raised
\* ("" for none), status is the HTTP status, items are the h3/h4/div/p
\* elements of the body.
fetch_starkweather_beers(response) ==
    IF response.error # "" \/ response.status >= 400
    THEN [ret |-> <<>>, shown |-> <<"error">>]
    ELSE [ret |-> Top(Unique(Candidates(response.items), {}, <<>>)), shown |-> <<>>]

----------------------------------------------------------------------------
(* Bounds and inputs *)

MaxClock == 2    \* the clock stops after this many steps

HazyIPA   == S(<<"H","a","z","y"," ","I","P","A">>)
DarkStout == S(<<"D","a","r","k"," ","S","t","o","u","t">>)
appleAle  == S(<<"a","p","p","l","e"," ","A","l","e">>)
Menu      == S(<<"M","e","n","u">>)

\* Lists passed to update_available_beers: empty, out of order, with a
\* repeated name, and a name that starts in lower case.
NewBeerLists ==
    { <<>>, <<HazyIPA, DarkStout>>, <<DarkStout, DarkStout>>, <<appleAle>> }

\* Pages the button fetches.  An element is the sequence of its text nodes:
\* names with surrounding whitespace, a name after an empty text node, and a
\* heading too short to be kept.
Pages ==
    { << <<Menu>> >>,
      << << <<32>> \o HazyIPA \o <<10>> >>, << <<32, 32>>, DarkStout \o <<32>> >> >>,
      << <<DarkStout>>, <<Menu>>, <<DarkStout>> >> }

\* add_beer's arguments: a name alone, and a name with a date.
AddBeerArgs == { <<HazyIPA, None>>, <<DarkStout, Some(strftime(0))>> }

AppResponses ==
    { [error |-> "Timeout", status |-> 0, items |-> <<>>],
      [error |-> "", status |-> 404, items |-> << <<appleAle>> >>] }
    \cup { [error |-> "", status |-> 200, items |-> items] : items \in Pages }

Sessions == {1, 2, 3}

NoCall == [op |-> "", args |-> <<>>, before |-> NoFile, ret |-> <<>>, calls |-> <<>>]

----------------------------------------------------------------------------
(* The application, one interaction at a time *)

Init ==
    /\ file = NoFile
    /\ clock = 0
    /\ ui = <<>>
    /\ last = NoCall
    /\ pc = [p \in Sessions |-> "idle"]
    /\ local = [p \in Sessions |-> EmptyData]

\* Time passes.
Tick ==
    /\ clock < MaxClock
    /\ clock' = clock + 1
    /\ UNCHANGED <<file, ui, last, pc, local>>

\* add_beer(beer_name, date), lines 27-38, called with or without a date.
\* Each call reads the clock later than the one before it.
CallAddBeer ==
    LET loaded == load_data(file) IN
    /\ ~loaded.raised
    /\ clock < MaxClock
    /\ \E call \in AddBeerArgs :
           /\ file' = save_data(add_beer(loaded.data, call[1], call[2], clock))
           /\ clock' = clock + 1
           /\ ui' = <<>>
           /\ last' = [op |-> "add_beer", args |-> <<call[1], call[2], clock>>,
                       before |-> file, ret |-> <<>>, calls |-> <<"add_beer">>]
           /\ UNCHANGED <<pc, local>>

\* update_available_beers(new_beers), lines 77-88.
CallUpdateAvailableBeers ==
    LET loaded == load_data(file) IN
    /\ ~loaded.raised
    /\ \E new_beers \in NewBeerLists :
        LET result == update_available_beers(loaded.data, new_beers) IN
        /\ file' = save_data(result.data)
        /\ ui' = <<>>
        /\ last' = [op |-> "update_available_beers", args |-> new_beers,
                    before |-> file, ret |-> result.ret,
                    calls |-> <<"update_available_beers">>]
        /\ UNCHANGED <<clock, pc, local>>

\* The "Fetch Beers" button, lines 203-216.
FetchBeersButton ==
    LET loaded == load_data(file) IN
    /\ ~loaded.raised
    /\ \E response \in AppResponses :
        LET fetched == fetch_starkweather_beers(response)
            result  == update_available_beers(loaded.data, fetched.ret)
        IN  /\ IF fetched.ret # <<>>
               THEN /\ file' = save_data(result.data)
                    /\ ui' = fetched.shown \o <<"success">>
                    /\ last' = [op |-> "FetchBeersButton", args |-> response,
                                before |-> file, ret |-> fetched.ret,
                                calls |-> <<"fetch_starkweather_beers",
                                            "update_available_beers">>]
               ELSE /\ file' = file
                    /\ ui' = fetched.shown \o <<"warning">>
                    /\ last' = [op |-> "FetchBeersButton", args |-> response,
                                before |-> file, ret |-> fetched.ret,
                                calls |-> <<"fetch_starkweather_beers">>]
            /\ UNCHANGED <<clock, pc, local>>

Next ==
    \/ Tick
    \/ CallAddBeer
    \/ CallUpdateAvailableBeers
    \/ FetchBeersButton

Spec == Init /\ [][Next]_vars

----------------------------------------------------------------------------
(* Properties of the application, one interaction at a time *)

\* What load_data() returns now, and what it returned before the last call.
Stored == load_data(file).data
Before == load_data(last.before).data

IsPrefix(p, q) == Len(p) <= Len(q) /\ SubSeq(q, 1, Len(p)) = p

FetchFailed(response) == response.error # "" \/ response.status >= 400

\* C1: every name stored as available before a call of add_beer or
\* update_available_beers (made directly or by the button) is stored after
\* it, so the number of available names never decreases.
C1_MergeMonotonic ==
    last.op # "" =>
        /\ Range(Before.available_beers) \subseteq Range(Stored.available_beers)
        /\ Cardinality(Range(Before.available_beers))
              <= Cardinality(Range(Stored.available_beers))

C1_Witness ==
    /\ last.op = "update_available_beers"
    /\ Before.available_beers # <<>>
    /\ Cardinality(Range(Stored.available_beers))
          > Cardinality(Range(Before.available_beers))

\* C2: update_available_beers(L) a second time changes neither the file nor
\* the count returned, and a call whose names are all stored already leaves
\* the stored names as they were.
C2_MergeIdempotent ==
    last.op = "update_available_beers" =>
        /\ save_data(update_available_beers(Stored, last.args).data) = file
        /\ update_available_beers(Stored, last.args).ret = last.ret
        /\ Range(last.args) \subseteq Range(Before.available_beers) =>
              /\ Range(Stored.available_beers) = Range(Before.available_beers)
              /\ last.ret = Cardinality(Range(Before.available_beers))

C2_Witness ==
    /\ last.op = "update_available_beers"
    /\ last.args # <<>>
    /\ Range(last.args) \subseteq Range(Before.available_beers)
    /\ Len(Before.available_beers) > Cardinality(Range(last.args))

\* Strictly ascending in Python's order of strings (by code point).
AscendingByCodePoint(list) ==
    \A i, j \in 1..Len(list) : i < j => StrLess(list[i], list[j])

\* Ascending in alphabetical order: letter case does not count.
AscendingAlphabetically(list) ==
    \A i, j \in 1..Len(list) : i < j => ~StrLess(Lower(list[j]), Lower(list[i]))

MergedNames == Range(Before.available_beers) \cup Range(last.args)

\* C3 as stated: after update_available_beers(N) the stored list holds
\* exactly the names of A union N, each once, in ascending alphabetical
\* order, and the call returns their number.
C3_MergeSortedAlphabetically ==
    last.op = "update_available_beers" =>
        /\ Range(Stored.available_beers) = MergedNames
        /\ Len(Stored.available_beers) = Cardinality(MergedNames)
        /\ AscendingAlphabetically(Stored.available_beers)
        /\ last.ret = Cardinality(MergedNames)

\* C3, amended: after update_available_beers(N) the stored list holds
\* exactly the names of A union N, each once, in ascending order of Python's
\* string comparison (code points: an upper-case letter sorts before every
\* lower-case one), and the call returns their number.
C3_MergeSortedByCodePoint ==
    last.op = "update_available_beers" =>
        /\ Range(Stored.available_beers) = MergedNames
        /\ Len(Stored.available_beers) = Cardinality(MergedNames)
        /\ AscendingByCodePoint(Stored.available_beers)
        /\ last.ret = Cardinality(MergedNames)

\* The empty store merged with ["Hazy IPA", "Dark Stout"].
C3_Witness ==
    /\ last.op = "update_available_beers"
    /\ Before.available_beers = <<>>
    /\ last.args = <<HazyIPA, DarkStout>>
    /\ Stored.available_beers = <<DarkStout, HazyIPA>>
    /\ last.ret = 2

\* C4: add_beer(name) without a date adds exactly one record, after the
\* records already stored, which stay as they were; the new record carries
\* the name and the date of the day of the call.
C4_AddBeerAppendsToday ==
    (last.op = "add_beer" /\ last.args[2] = None) =>
        /\ Len(Stored.beers) = Len(Before.beers) + 1
        /\ SubSeq(Stored.beers, 1, Len(Before.beers)) = Before.beers
        /\ Stored.beers[Len(Stored.beers)].name = last.args[1]
        /\ Stored.beers[Len(Stored.beers)].date = strftime(last.args[3])

\* A record added on 2024-02-29 after one added the day before.
C4_Witness ==
    /\ last.op = "add_beer"
    /\ last.args[2] = None
    /\ Len(Before.beers) = 1
    /\ Len(Stored.beers) = 2
    /\ Stored.beers[2].date = S(<<"2","0","2","4","-","0","2","-","2","9">>)

\* C5: when the fetch fails, fetch_starkweather_beers returns the empty
\* list, an error is shown, the button does not call
\* update_available_beers, and the file is as it was.
C5_FailedFetchChangesNothing ==
    (last.op = "FetchBeersButton" /\ FetchFailed(last.args)) =>
        /\ last.ret = <<>>
        /\ "error" \in Range(ui)
        /\ "update_available_beers" \notin Range(last.calls)
        /\ file = last.before

C5_Witness ==
    /\ last.op = "FetchBeersButton"
    /\ last.args.error = "Timeout"
    /\ last.ret = <<>>
    /\ Stored.available_beers # <<>>
    /\ Stored.beers # <<>>

\* C10: the records stored before a call are a prefix of those stored after
\* it; update_available_beers leaves the records as they were and add_beer
\* leaves the available names as they were.
C10_RecordsAppendOnly ==
    last.op # "" =>
        /\ IsPrefix(Before.beers, Stored.beers)
        /\ "add_beer" \notin Range(last.calls) => Stored.beers = Before.beers
        /\ "update_available_beers" \notin Range(last.calls) =>
              Stored.available_beers = Before.available_beers

C10_Witness ==
    /\ last.op = "update_available_beers"
    /\ Len(Stored.beers) = 2
    /\ Stored.available_beers # Before.available_beers

----------------------------------------------------------------------------
(* The scraper alone: fetch_starkweather_beers on one response *)

MaxTextLen == 101   \* longest text of an element
MaxNames   == 22    \* distinct names on a page
MaxPageLen == 26    \* elements of a page

Filler(n) == [i \in 1..n |-> Ord("x")]

Upper(text) ==
    [i \in 1..Len(text) |-> IF text[i] >= 97 /\ text[i] <= 122 THEN text[i] - 32 ELSE text[i]]

\* Texts of every length: without a keyword, and with each keyword at the
\* start in lower case and at the end in upper case.
Fragments ==
    { Filler(n) : n \in 0..MaxTextLen }
    \cup { Keywords[k] \o Filler(n - Len(Keywords[k])) :
              k \in 1..Len(Keywords), n \in 3..MaxTextLen }
    \cup { Filler(n - Len(Keywords[k])) \o Upper(Keywords[k]) :
              k \in 1..Len(Keywords), n \in 3..MaxTextLen }

\* "Ale 01", "Ale 02", ...
NameNo(j) == S(<<"A","l","e"," ">>) \o Decimal(j, 2)

\* A page of n elements that names m beers again and again, every k-th first.
PageOf(n, m, k) == [i \in 1..n |-> <<NameNo((((i - 1) * k) % m) + 1)>>]

ScrapedPages ==
    { PageOf(n, m, k) : n \in 0..MaxPageLen, m \in {1, 3, MaxNames - 1, MaxNames}, k \in {1, 3} }
    \cup { << <<NameNo(1)>>, <<NameNo(2)>>, <<NameNo(1)>>, <<NameNo(3)>> >> }

OK(items) == [error |-> "", status |-> 200, items |-> items]

\* Pages with one element, its text between whitespace, and pages of names.
ScrapeResponses ==
    { OK(<< << <<32>> \o text \o <<10>> >> >>) : text \in Fragments }
    \cup { OK(items) : items \in ScrapedPages }

\* One call of fetch_starkweather_beers(url).
Scrape ==
    /\ last.op = ""
    /\ \E response \in ScrapeResponses :
        LET fetched == fetch_starkweather_beers(response) IN
        /\ last' = [op |-> "fetch_starkweather_beers", args |-> response,
                    before |-> NoFile, ret |-> fetched.ret,
                    calls |-> <<"fetch_starkweather_beers">>]
        /\ ui' = fetched.shown
    /\ UNCHANGED <<file, clock, pc, local>>

NextScrape == Scrape

SpecScrape == Init /\ [][NextScrape]_vars

\* The texts of the elements of the page the last call fetched.
Texts == [i \in 1..Len(last.args.items) |-> get_text(last.args.items[i])]

\* The same letter, whatever its case.
SameLetter(c, d) == c = d \/ (c >= 65 /\ c <= 90 /\ c + 32 = d)

HasKeyword(text) ==
    \E k \in 1..Len(Keywords) :
        \E i \in 0..(Len(text) - Len(Keywords[k])) :
            \A j \in 1..Len(Keywords[k]) : SameLetter(text[i + j], Keywords[k][j])

Qualifies(text) ==
    /\ 3 < Len(text) /\ Len(text) < 100
    /\ HasKeyword(text) \/ (5 < Len(text) /\ Len(text) < 60)

\* C6: a text is kept as a candidate name if and only if its length n has
\* 3 < n < 100 and it holds a keyword, in any case, or 5 < n < 60: 2 and 101
\* characters are rejected, 10 accepted, 4 without a keyword rejected.
C6_CandidateFilter ==
    (last.op = "fetch_starkweather_beers" /\ Len(Texts) = 1) =>
        LET text == Texts[1]
            kept == last.ret = <<text>>
        IN  /\ kept \/ last.ret = <<>>
            /\ kept <=> Qualifies(text)
            /\ Len(text) \in {2, 101} => ~kept
            /\ Len(text) = 10 => kept
            /\ (Len(text) = 4 /\ ~HasKeyword(text)) => ~kept

\* A text of 10 characters without a keyword is kept.
C6_Witness ==
    /\ last.op = "fetch_starkweather_beers"
    /\ Len(Texts) = 1
    /\ Len(Texts[1]) = 10
    /\ ~HasKeyword(Texts[1])
    /\ last.ret = Texts

FirstIndex(seq, x) == CHOOSE i \in 1..Len(seq) : seq[i] = x /\ \A j \in 1..(i - 1) : seq[j] # x

\* C7: of a page of accepted names the call returns each name once, in the
\* order of the names' first occurrences, and exactly the first 20 distinct
\* names when there are more than 20.
C7_UniqueFirstTwenty ==
    (last.op = "fetch_starkweather_beers" /\ \A i \in 1..Len(Texts) : Qualifies(Texts[i])) =>
        LET ret == last.ret IN
        /\ Range(ret) \subseteq Range(Texts)
        /\ \A i, j \in 1..Len(ret) :
              i < j => FirstIndex(Texts, ret[i]) < FirstIndex(Texts, ret[j])
        /\ \A x \in Range(Texts), r \in Range(ret) :
              FirstIndex(Texts, x) < FirstIndex(Texts, r) => x \in Range(ret)
        /\ Len(ret) = Min(20, Cardinality(Range(Texts)))
        /\ Len(ret) <= 20
        /\ Texts = <<NameNo(1), NameNo(2), NameNo(1), NameNo(3)>> =>
              ret = <<NameNo(1), NameNo(2), NameNo(3)>>

\* More than 20 distinct names, some repeated, out of their sorted order.
C7_Witness ==
    /\ last.op = "fetch_starkweather_beers"
    /\ Cardinality(Range(Texts)) > 20
    /\ Len(Texts) > Cardinality(Range(Texts))
    /\ Len(last.ret) = 20
    /\ last.ret[2] = NameNo(4)

----------------------------------------------------------------------------
(* The file store alone: save_data, then load_data *)

MaxDocRecords == 1   \* records of a document saved
MaxDocNames   == 2   \* available names of a document saved

\* Strings with the characters the encoder treats differently: a quote and
\* a backslash, a letter outside ASCII, a line break, a control character,
\* a character above U+FFFF, and a backslash followed by the letter u.
Strings ==
    { <<>>, HazyIPA, <<34, 92>>, <<233, 10>>, <<7, 127866>>, <<92, 117, 48, 48, 52, 49>> }

Records ==
    { [name |-> n, date |-> strftime(0), timestamp |-> isoformat(1)] : n \in {HazyIPA, <<92, 34>>} }
    \cup { [name |-> <<>>, date |-> <<233>>, timestamp |-> <<>>] }

\* All sequences over `set` of length at most n.
RECURSIVE SeqsUpTo(_, _)
SeqsUpTo(set, n) ==
    IF n = 0 THEN {<<>>}
    ELSE LET shorter == SeqsUpTo(set, n - 1)
         IN  shorter \cup {Append(q, x) : q \in {r \in shorter : Len(r) = n - 1}, x \in set}

Documents ==
    { [beers |-> b, available_beers |-> a] :
         b \in SeqsUpTo(Records, MaxDocRecords), a \in SeqsUpTo(Strings, MaxDocNames) }

SaveData ==
    /\ last.op = ""
    /\ \E d \in Documents :
          /\ file' = save_data(d)
          /\ last' = [op |-> "save_data", args |-> d, before |-> file, ret |-> <<>>,
                      calls |-> <<"save_data">>]
    /\ UNCHANGED <<clock, ui, pc, local>>

LoadData ==
    /\ last.op \in {"", "save_data"}
    /\ last' = [op |-> "load_data", args |-> last.args, before |-> file,
                ret |-> load_data(file), calls |-> last.calls \o <<"load_data">>]
    /\ UNCHANGED <<file, clock, ui, pc, local>>

NextRoundTrip == SaveData \/ LoadData

SpecRoundTrip == Init /\ [][NextRoundTrip]_vars

----------------------------------------------------------------------------
(* Sessions on the one file, each making one call: nothing locks the       *)
(* load-modify-save cycle                                                   *)

\* A session in add_beer has loaded the document and appended its record
\* (lines 29-37); save_data is still to come.
LoadForAddBeer(p) ==
    LET loaded == load_data(file) IN
    /\ pc[p] = "idle"
    /\ ~loaded.raised
    /\ clock < MaxClock
    /\ \E call \in AddBeerArgs :
          local' = [local EXCEPT ![p] =
                       [op |-> "add_beer", args |-> <<call[1], call[2], clock>>,
                        snapshot |-> file, ret |-> <<>>, lost |-> {},
                        data |-> add_beer(loaded.data, call[1], call[2], clock)]]
    /\ clock' = clock + 1
    /\ pc' = [pc EXCEPT ![p] = "saving"]
    /\ UNCHANGED <<file, ui, last>>

\* A session in update_available_beers has loaded the document and merged
\* the names (lines 79-86); save_data is still to come.
LoadForUpdate(p) ==
    LET loaded == load_data(file) IN
    /\ pc[p] = "idle"
    /\ ~loaded.raised
    /\ \E new_beers \in NewBeerLists \ {<<>>} :
        LET result == update_available_beers(loaded.data, new_beers) IN
        local' = [local EXCEPT ![p] =
                     [op |-> "update_available_beers", args |-> new_beers,
                      snapshot |-> file, ret |-> result.ret, lost |-> {},
                      data |-> result.data]]
    /\ pc' = [pc EXCEPT ![p] = "saving"]
    /\ UNCHANGED <<file, clock, ui, last>>

\* A save that loads the document again and redoes its update on it.
SaveReloading(p) ==
    LET loaded == load_data(file).data
        redone == IF local[p].op = "add_beer"
                  THEN add_beer(loaded, local[p].args[1], local[p].args[2], local[p].args[3])
                  ELSE update_available_beers(loaded, local[p].args).data
    IN
    /\ pc[p] = "saving"
    /\ file' = save_data(redone)
    /\ last' = [op |-> local[p].op, args |-> local[p].args, before |-> local[p].snapshot,
                ret |-> local[p].ret, calls |-> <<local[p].op>>, lost |-> local[p].lost]
    /\ local' = [q \in Sessions |->
                    IF q # p /\ pc[q] = "saving"
                    THEN [local[q] EXCEPT !.lost = @ \cup {[op |-> local[p].op,
                                                           args |-> local[p].args,
                                                           before |-> local[p].snapshot]}]
                    ELSE IF q = p THEN EmptyData ELSE local[q]]
    /\ pc' = [pc EXCEPT ![p] = "returned"]
    /\ UNCHANGED <<clock, ui>>

\* save_data(data) and the return (lines 38, 87-88).  Every session that has
\* loaded and not yet saved will overwrite what this one writes: the update
\* is noted in its `lost`.
Save(p) ==
    /\ pc[p] = "saving"
    /\ file' = save_data(local[p].data)
    /\ last' = [op |-> local[p].op, args |-> local[p].args, before |-> local[p].snapshot,
                ret |-> local[p].ret, calls |-> <<local[p].op>>, lost |-> local[p].lost]
    /\ local' = [q \in Sessions |->
                    IF q # p /\ pc[q] = "saving"
                    THEN [local[q] EXCEPT !.lost = @ \cup {[op |-> local[p].op,
                                                           args |-> local[p].args,
                                                           before |-> local[p].snapshot]}]
                    ELSE IF q = p THEN EmptyData ELSE local[q]]
    /\ pc' = [pc EXCEPT ![p] = "returned"]
    /\ UNCHANGED <<clock, ui>>

NextRace ==
    \/ \E p \in Sessions : LoadForAddBeer(p)
    \/ \E p \in Sessions : LoadForUpdate(p)
    \/ \E p \in Sessions : Save(p)

SpecRace == Init /\ [][NextRace]_vars

\* The last save overwrote updates saved since its session loaded.
Overwrote == last.op # "" /\ last.lost # {}

\* The names an update added to the document it had loaded.
AddedNames(u) == Range(u.args) \ Range(load_data(u.before).data.available_beers)

\* The record an add_beer appended.
AddedRecord(u) ==
    [name |-> u.args[1],
     date |-> IF u.args[2] = None THEN strftime(u.args[3]) ELSE u.args[2][1],
     timestamp |-> isoformat(u.args[3])]

\* The names the last call was given to merge.
OwnNames == IF last.op = "update_available_beers" THEN Range(last.args) ELSE {}

\* The record the last call appended.
OwnRecords == IF last.op = "add_beer" THEN {AddedRecord(last)} ELSE {}

\* The later writer's own update of the document it loaded, and nothing else.
LastWriteWins ==
    /\ Stored.beers =
          Before.beers \o (IF last.op = "add_beer" THEN <<AddedRecord(last)>> ELSE <<>>)
    /\ Range(Stored.available_beers) = Range(Before.available_beers) \cup OwnNames
    /\ "error" \notin Range(ui)

\* C8 as stated: when two operations both load before either saves, the
\* file holds the document of the later save and the earlier writer's
\* update is absent from it; no error is reported.
C8_EarlierUpdateAbsent ==
    Overwrote =>
        /\ LastWriteWins
        /\ \A u \in last.lost :
              IF u.op = "add_beer"
              THEN AddedRecord(u) \notin Range(Stored.beers)
              ELSE AddedNames(u) \cap Range(Stored.available_beers) = {}

\* C8, amended: when two operations both load before either saves, the file
\* holds the document of the later save, which is the later writer's own
\* update of the document it loaded; of the earlier writer's update, every
\* record and every name that the later writer neither loaded nor added
\* itself is absent; no error is reported.
C8_LastWriteWins ==
    Overwrote =>
        /\ LastWriteWins
        /\ \A u \in last.lost :
              IF u.op = "add_beer"
              THEN ({AddedRecord(u)} \ (Range(Before.beers) \cup OwnRecords))
                      \cap Range(Stored.beers) = {}
              ELSE (AddedNames(u) \ (Range(Before.available_beers) \cup OwnNames))
                      \cap Range(Stored.available_beers) = {}

\* An update_available_beers saved after an add_beer that had loaded the
\* same empty store: the record is gone.
C8_Witness ==
    /\ Overwrote
    /\ last.op = "update_available_beers"
    /\ \E u \in last.lost : u.op = "add_beer"
    /\ Stored.beers = <<>>
    /\ Stored.available_beers # <<>>

=============================================================================
